---- MODULE Spec2Model ----
(***************************************************************************)
(* Model of duckdb-polars/src/lib.rs: query_to_df_polars and               *)
(* arrowrs_record_batches_to_polars_df.                                    *)
(*                                                                         *)
(* A query result is a Vec<RecordBatch>.  Every batch is converted by one  *)
(* task of the outer parallel iterator, every column of a batch by one     *)
(* task of that batch's inner parallel iterator.  Both iterators are       *)
(* collected into a Result<Vec<_>, _>: the first error that is recorded    *)
(* wins, tasks that have not started yet may then be skipped, and the      *)
(* items are placed by index.  The converted frames are stacked by         *)
(* accumulate_dataframes_vertical_unchecked.                               *)
(*                                                                         *)
(* Batches are numbered 1..N here (batch k is rbs[k-1] of the code);       *)
(* column positions i are the 0-based positions of enumerate().            *)
(***************************************************************************)
EXTENDS Integers, Sequences, FiniteSets, TLC

\* ------------------------------------------------------------------ bounds
\* Longest batch sequence drawn over the whole batch alphabet.
MaxBatches == 2
\* Longest batch sequence drawn over the plain alphabet (one accepted type,
\* one naming): long enough for a narrow batch between two wide ones.
MaxPlainBatches == 3
\* Widest batch.
MaxCols == 2
\* Most rows in a batch.
MaxRows == 2

\* ------------------------------------------------------------- data model
\* Element types of a source array.  Series::try_from builds a Series for
\* the accepted ones and returns Err(PolarsError) for the rejected ones.
AcceptedTypes == {"int", "str"}
RejectedTypes == {"interval"}
DataTypes == AcceptedTypes \cup RejectedTypes
PlainTypes == {"int"}

\* Field names.  A schema with naming v calls its column at position i
\* FieldName(v, i); two namings never agree at any position.
NamePool == <<"a", "b", "c", "d">>
Namings == {0, 1}
PlainNamings == {0}
FieldName(v, i) == NamePool[((i + v) % Len(NamePool)) + 1]

\* The value in row r of column i of batch k: a token that records where
\* the value came from, so that order, loss and duplication are visible.
Value(k, i, r) == <<k, i, r>>

\* A RecordBatch: a schema (one field per column), the column arrays and
\* the row count.  RecordBatch's own validation guarantees one field per
\* column, the field's type on each array and num_rows values per array.
RecordBatch(k, shape) ==
    [ schema   |-> [j \in 1..Len(shape.types) |->
                      [name |-> FieldName(shape.naming, j - 1),
                       data_type |-> shape.types[j]]],
      columns  |-> [j \in 1..Len(shape.types) |->
                      [format |-> "arrow-rs",
                       data_type |-> shape.types[j],
                       values |-> [r \in 1..shape.rows |-> Value(k, j - 1, r - 1)]]],
      num_rows |-> shape.rows ]

Shapes(types, namings) ==
    { [rows |-> n, types |-> t, naming |-> v] :
        n \in 0..MaxRows,
        t \in UNION { [1..w -> types] : w \in 0..MaxCols },
        v \in namings }

BatchSeqs(types, namings, maxLen) ==
    UNION { { [k \in 1..n |-> RecordBatch(k, s[k])] :
                s \in [1..n -> Shapes(types, namings)] } : n \in 0..maxLen }

\* The batch sequences the engine (or a direct caller) hands over.
Inputs ==
    BatchSeqs(DataTypes, Namings, MaxBatches)
        \cup BatchSeqs(PlainTypes, PlainNamings, MaxPlainBatches)

\* What the engine does with the query.
EngineOutcomes == {"prepare_err", "query_err", "ok"}

\* ------------------------------------------------------------ error values
Ok(v) == [ok |-> TRUE, val |-> v]
Err(e) == [ok |-> FALSE, err |-> e]

\* DuckDBPolarsError::Internal, built by the failed name lookup.
InternalNameNotFound(i) ==
    [tag |-> "Internal", msg |-> <<"Column name not found for index ", i>>]

\* A variant of FromPolarsError that files the failure under Internal.
FromPolarsErrorAsInternal(e) ==
    [tag |-> "Internal", msg |-> <<"Polars error: ", e>>]

\* impl From<PolarsError> for DuckDBPolarsError
FromPolarsError(e) ==
    [tag |-> "Polars", msg |-> <<"Polars error: ", e>>, source |-> e]

\* impl From<DuckDBError> for DuckDBPolarsError
FromDuckDBError(e) ==
    [tag |-> "DuckDB", msg |-> <<"DuckDB error: ", e>>, source |-> e]

\* --------------------------------------------------- one column's closure
\* A variant of ColumnNames that reads the last batch's schema.
ColumnNamesOfLastBatch(batches) ==
    [j \in 1..Len(batches[Len(batches)].schema) |->
        batches[Len(batches)].schema[j].name]

\* let column_names = rbs[0].schema().fields().iter().map(|f| f.name())...
ColumnNames(batches) ==
    [j \in 1..Len(batches[1].schema) |-> batches[1].schema[j].name]

\* arrow2::array::from_data: the same type and the same values, held as an
\* arrow2 array.  The source takes its value as it is: the call has no error
\* path.
FromData(array) ==
    [format |-> "arrow2", data_type |-> array.data_type, values |-> array.values]

\* A variant of LookupName whose error names the position after i.
LookupNameOffByOne(names, i) ==
    IF i < Len(names) THEN Ok(names[i + 1])
    ELSE [ok |-> FALSE,
          err |-> [tag |-> "Internal",
                   msg |-> <<"Column name not found for index ", i + 1>>]]

\* column_names.get(i).ok_or_else(|| Internal {..})
LookupName(names, i) ==
    IF i < Len(names) THEN Ok(names[i + 1]) ELSE Err(InternalNameNotFound(i))

\* Series::try_from((name, arrow2_array))
SeriesTryFrom(name, arrow2_array) ==
    IF arrow2_array.data_type \in AcceptedTypes
    THEN Ok([name |-> name, dtype |-> arrow2_array.data_type,
             values |-> arrow2_array.values])
    ELSE Err([kind |-> "ComputeError", data_type |-> arrow2_array.data_type])

\* The closure of the inner map: |(i, array)| { ... }
ConvertColumnResult(names, i, array) ==
    LET arrow2_array == FromData(array)
        name == LookupName(names, i)
    IN  IF ~name.ok THEN Err(name.err)
        ELSE LET s == SeriesTryFrom(name.val, arrow2_array)
             IN  IF s.ok THEN Ok(s.val) ELSE Err(FromPolarsError(s.err))

\* ------------------------------------------ collect::<Result<Vec<_>, _>>()
\* An Option holding the collect's saved error.
None == <<>>
IsSome(saved) == Len(saved) > 0

\* The first error recorded is kept, later ones are dropped.
SaveError(saved, e) == IF IsSome(saved) THEN saved ELSE <<e>>

\* A slot of the collect, one per item, by index.
Pending == [st |-> "pending"]
Skipped == [st |-> "skipped"]
Failed == [st |-> "failed"]
Done(v) == [st |-> "done", val |-> v]

\* Helpers of the variants below.
Reverse(seq) == [j \in 1..Len(seq) |-> seq[Len(seq) + 1 - j]]
IsDone(slot) == slot.st = "done"

\* A variant of CollectVec that yields the items last index first.
CollectVecReversed(slotsOfCollect) ==
    [j \in 1..Len(slotsOfCollect) |->
        slotsOfCollect[Len(slotsOfCollect) + 1 - j].val]

\* The items of a collect that saw no error, in index order.
CollectVec(slotsOfCollect) ==
    [j \in 1..Len(slotsOfCollect) |-> slotsOfCollect[j].val]

\* A variant of CollectResult that drops the failed items and keeps the rest.
CollectResultOfSuccesses(saved, slotsOfCollect) ==
    Ok([j \in 1..Len(SelectSeq(slotsOfCollect, IsDone)) |->
          SelectSeq(slotsOfCollect, IsDone)[j].val])

\* The collect's value once no task is left.
CollectResult(saved, slotsOfCollect) ==
    IF IsSome(saved) THEN Err(saved[1]) ELSE Ok(CollectVec(slotsOfCollect))

\* ------------------------------------------------------- frames, stacking
\* DataFrame::new_no_checks(s_vec)
NewNoChecks(s_vec) == [columns |-> s_vec]

\* DataFrame::height: the length of the first column, 0 without columns.
Height(df) == IF Len(df.columns) = 0 THEN 0 ELSE Len(df.columns[1].values)

\* Series::append (SeriesAppend): refuses a series of another dtype.
SeriesAppend(left, right) ==
    IF left.dtype = right.dtype
    THEN Ok([left EXCEPT !.values = @ \o right.values])
    ELSE Err([kind |-> "SchemaMismatch"])

Min(a, b) == IF a <= b THEN a ELSE b

\* DataFrame::vstack_mut_unchecked: zips the columns of both frames, appends
\* pairwise and expects every append to succeed (it panics otherwise).
VStackMutUnchecked(acc, other) ==
    LET n == Min(Len(acc.columns), Len(other.columns))
    IN  IF \E j \in 1..n : ~SeriesAppend(acc.columns[j], other.columns[j]).ok
        THEN Err("should not fail")
        ELSE Ok([columns |->
                   [j \in 1..Len(acc.columns) |->
                      IF j <= n
                      THEN SeriesAppend(acc.columns[j], other.columns[j]).val
                      ELSE acc.columns[j]]])

\* The loop of accumulate_dataframes_vertical_unchecked over dfs[from..].
RECURSIVE StackFrom(_, _, _)
StackFrom(acc, dfs, from) ==
    IF from > Len(dfs) THEN Ok(acc)
    ELSE LET step == VStackMutUnchecked(acc, dfs[from])
         IN  IF step.ok THEN StackFrom(step.val, dfs, from + 1) ELSE step

\* A variant of AccumulateVertical that stacks the frames last to first.
AccumulateVerticalLastFirst(dfs) == StackFrom(Reverse(dfs)[1], Reverse(dfs), 2)

\* A variant of AccumulateVertical that stacks the first frame under itself.
AccumulateVerticalFirstTwice(dfs) == StackFrom(dfs[1], dfs, 1)

\* accumulate_dataframes_vertical_unchecked(dfs): the first frame, with the
\* others stacked under it in order.
AccumulateVertical(dfs) == StackFrom(dfs[1], dfs, 2)

\* ------------------------------------------------------------------ state
VARIABLES
    engine,        \* what the engine does with the query
    rbs,           \* the batches the engine returns
    pc,            \* where the call is
    column_names,  \* the names taken from the first batch
    slots,         \* slots[k][i+1]: the inner collect's slot of column i of batch k
    saved,         \* saved[k]: the saved error of batch k's inner collect
    frames,        \* frames[k]: the outer collect's slot of batch k
    outer_saved,   \* the saved error of the outer collect
    result,        \* what the call gave its caller
    overtaken      \* history: the iterators in which a task has finished
                   \* while a task of a lower index had not

vars == <<engine, rbs, pc, column_names, slots, saved, frames, outer_saved,
          result, overtaken>>

NoResult == [kind |-> "None"]
Returned(r) == IF r.ok THEN [kind |-> "Ok", df |-> r.val]
               ELSE [kind |-> "Err", err |-> r.err]
Panicked(why) == [kind |-> "Panic", why |-> why]

Batches == 1..Len(rbs)
Width(k) == Len(rbs[k].columns)

Init ==
    /\ engine \in EngineOutcomes
    /\ rbs \in (IF engine = "ok" THEN Inputs ELSE {<<>>})
    /\ pc = "prepare"
    /\ column_names = <<>>
    /\ slots = [k \in 1..Len(rbs) |-> [j \in 1..Len(rbs[k].columns) |-> Pending]]
    /\ saved = [k \in 1..Len(rbs) |-> None]
    /\ frames = [k \in 1..Len(rbs) |-> Pending]
    /\ outer_saved = None
    /\ result = NoResult
    /\ overtaken = {}

\* let mut statement = conn.prepare(query)?;
Prepare ==
    /\ pc = "prepare"
    /\ IF engine = "prepare_err"
       THEN /\ result' = Returned(Err(FromDuckDBError("prepare failed")))
            /\ pc' = "done"
       ELSE /\ result' = result
            /\ pc' = "query"
    /\ UNCHANGED <<engine, rbs, column_names, slots, saved, frames, outer_saved, overtaken>>

\* let rbs = statement.query_arrow([])?.collect::<Vec<_>>();
QueryArrow ==
    /\ pc = "query"
    /\ IF engine = "query_err"
       THEN /\ result' = Returned(Err(FromDuckDBError("query failed")))
            /\ pc' = "done"
       ELSE /\ result' = result
            /\ pc' = "names"
    /\ UNCHANGED <<engine, rbs, column_names, slots, saved, frames, outer_saved, overtaken>>

\* let column_names = rbs[0]...: indexing an empty Vec panics.
TakeColumnNames ==
    /\ pc = "names"
    /\ IF Len(rbs) = 0
       THEN /\ result' = Panicked("index out of bounds")
            /\ pc' = "done"
            /\ column_names' = column_names
       ELSE /\ column_names' = ColumnNames(rbs)
            /\ pc' = "convert"
            /\ result' = result
    /\ UNCHANGED <<engine, rbs, slots, saved, frames, outer_saved, overtaken>>

\* One task of batch k's inner iterator runs the closure on column i.
ConvertColumn(k, i) ==
    /\ pc = "convert"
    /\ frames[k].st = "pending"
    /\ slots[k][i + 1].st = "pending"
    /\ LET r == ConvertColumnResult(column_names, i, rbs[k].columns[i + 1])
       IN  /\ slots' = [slots EXCEPT ![k][i + 1] = IF r.ok THEN Done(r.val) ELSE Failed]
           /\ saved' = [saved EXCEPT ![k] = IF r.ok THEN @ ELSE SaveError(@, r.err)]
    /\ overtaken' = IF \E j \in 1..i : slots[k][j].st = "pending"
                    THEN overtaken \cup {"columns"} ELSE overtaken
    /\ UNCHANGED <<engine, rbs, pc, column_names, frames, outer_saved, result>>

\* Batch k's inner collect has seen an error: a column task that has not
\* started is dropped.
SkipColumn(k, i) ==
    /\ pc = "convert"
    /\ frames[k].st = "pending"
    /\ slots[k][i + 1].st = "pending"
    /\ IsSome(saved[k])
    /\ slots' = [slots EXCEPT ![k][i + 1] = Skipped]
    /\ UNCHANGED <<engine, rbs, pc, column_names, saved, frames, outer_saved, result,
                   overtaken>>

\* A variant of BatchResult that refuses a frame whose width is not the
\* first batch's.
BatchResultSameWidth(savedOfBatch, slotsOfBatch) ==
    LET s_vec == CollectResult(savedOfBatch, slotsOfBatch)
    IN  IF ~s_vec.ok THEN s_vec
        ELSE IF Len(s_vec.val) # Len(column_names)
             THEN Err([tag |-> "Internal", msg |-> <<"Schema mismatch", Len(s_vec.val)>>])
             ELSE Ok(NewNoChecks(s_vec.val))

\* What batch k's closure returns: .collect::<Result<Vec<_>, _>>()? and
\* then Ok(DataFrame::new_no_checks(s_vec)).
BatchResult(savedOfBatch, slotsOfBatch) ==
    LET s_vec == CollectResult(savedOfBatch, slotsOfBatch)
    IN  IF s_vec.ok THEN Ok(NewNoChecks(s_vec.val)) ELSE s_vec

\* Batch k's closure ends, once none of its column tasks is left.
FinishBatch(k) ==
    /\ pc = "convert"
    /\ frames[k].st = "pending"
    /\ \A j \in 1..Width(k) : slots[k][j].st # "pending"
    /\ LET r == BatchResult(saved[k], slots[k])
       IN  /\ frames' = [frames EXCEPT ![k] = IF r.ok THEN Done(r.val) ELSE Failed]
           /\ outer_saved' = IF r.ok THEN outer_saved ELSE SaveError(outer_saved, r.err)
    /\ overtaken' = IF \E j \in 1..(k - 1) : frames[j].st = "pending"
                    THEN overtaken \cup {"batches"} ELSE overtaken
    /\ UNCHANGED <<engine, rbs, pc, column_names, slots, saved, result>>

\* The outer collect has seen an error: a batch task that has not started
\* is dropped.
SkipBatch(k) ==
    /\ pc = "convert"
    /\ frames[k].st = "pending"
    /\ \A j \in 1..Width(k) : slots[k][j].st = "pending"
    /\ IsSome(outer_saved)
    /\ frames' = [frames EXCEPT ![k] = Skipped]
    /\ UNCHANGED <<engine, rbs, pc, column_names, slots, saved, outer_saved, result,
                   overtaken>>

\* What the call returns: the outer .collect::<Result<Vec<_>, _>>()? and
\* then Ok(accumulate_dataframes_vertical_unchecked(dfs)).
CallResult(savedOfCall, slotsOfCall) ==
    LET dfs == CollectResult(savedOfCall, slotsOfCall)
    IN  IF ~dfs.ok THEN Returned(dfs)
        ELSE LET df == AccumulateVertical(dfs.val)
             IN  IF df.ok THEN Returned(df) ELSE Panicked(df.err)

\* No batch task is left: the frames are collected and stacked.
Assemble ==
    /\ pc = "convert"
    /\ \A k \in Batches : frames[k].st # "pending"
    /\ result' = CallResult(outer_saved, frames)
    /\ pc' = "done"
    /\ UNCHANGED <<engine, rbs, column_names, slots, saved, frames, outer_saved, overtaken>>

Next ==
    \/ Prepare
    \/ QueryArrow
    \/ TakeColumnNames
    \/ \E k \in Batches : \E i \in 0..(Width(k) - 1) : ConvertColumn(k, i)
    \/ \E k \in Batches : \E i \in 0..(Width(k) - 1) : SkipColumn(k, i)
    \/ \E k \in Batches : FinishBatch(k)
    \/ \E k \in Batches : SkipBatch(k)
    \/ Assemble

Spec == Init /\ [][Next]_vars

\* ================================================================= claims
\* Vocabulary of the claims, read off the input and the outcome.
Finished == pc = "done"
Success == Finished /\ result.kind = "Ok"
Converting == engine = "ok" /\ Len(rbs) >= 1

\* Column i of batch k lies beyond the first batch's schema.
OutOfRange(k, i) == i >= Len(rbs[1].schema)
\* Column i of batch k has a name, and Series::try_from rejects its type.
Rejected(k, i) == ~OutOfRange(k, i) /\ rbs[k].columns[i + 1].data_type \in RejectedTypes
Positions(k) == 0..(Len(rbs[k].columns) - 1)
SomeOutOfRange == \E k \in Batches : \E i \in Positions(k) : OutOfRange(k, i)
SomeRejected == \E k \in Batches : \E i \in Positions(k) : Rejected(k, i)
FailingColumns ==
    { <<k, i>> \in Batches \X (0..MaxCols) :
        i \in Positions(k) /\ (OutOfRange(k, i) \/ Rejected(k, i)) }

\* Every batch has as many columns as the first.
UniformWidth == \A k \in Batches : Len(rbs[k].columns) = Len(rbs[1].columns)
\* Every batch's column at a position the first batch has is of the first
\* batch's type there.
SameTypes ==
    \A k \in Batches : \A j \in 1..Min(Len(rbs[k].columns), Len(rbs[1].columns)) :
        rbs[k].columns[j].data_type = rbs[1].columns[j].data_type

RECURSIVE RowsBefore(_)
RowsBefore(k) == IF k <= 1 THEN 0 ELSE RowsBefore(k - 1) + rbs[k - 1].num_rows
TotalRows == RowsBefore(Len(rbs) + 1)

\* Column j of the batches up to batch k that have a column j, end to end.
RECURSIVE ColumnUpTo(_, _)
ColumnUpTo(j, k) ==
    IF k = 0 THEN <<>>
    ELSE ColumnUpTo(j, k - 1)
           \o (IF j <= Len(rbs[k].columns) THEN rbs[k].columns[j].values ELSE <<>>)

\* ---- C1 -----------------------------------------------------------------
\* C1 (as claimed): a call with zero batches ends by returning an Internal
\* error to its caller.
C1_ZeroBatchesReturnInternal ==
    (Finished /\ engine = "ok" /\ Len(rbs) = 0)
        => (result.kind = "Err" /\ result.err.tag = "Internal")

\* ---- C2 -----------------------------------------------------------------
\* C2 (as claimed): in every successful conversion, row r of batch k is row
\* RowsBefore(k) + r of the table: the value of each of its columns is found
\* there, whatever the order in which the tasks finished.
C2_RowsInBatchOrder ==
    Success =>
        \A k \in Batches : \A i \in Positions(k) : \A r \in 1..rbs[k].num_rows :
            /\ i + 1 <= Len(result.df.columns)
            /\ RowsBefore(k) + r <= Len(result.df.columns[i + 1].values)
            /\ result.df.columns[i + 1].values[RowsBefore(k) + r]
                 = rbs[k].columns[i + 1].values[r]

\* C2 (amended): in every successful conversion each column of the table is
\* that column of the batches that have it, end to end in batch order; when
\* all batches are as wide as the first, that is every batch's rows at their
\* places, the table holding nothing else.
C2_ColumnsInBatchOrder ==
    Success =>
        /\ \A j \in 1..Len(result.df.columns) :
              result.df.columns[j].values = ColumnUpTo(j, Len(rbs))
        /\ UniformWidth =>
              /\ \A j \in 1..Len(result.df.columns) :
                    Len(result.df.columns[j].values) = TotalRows
              /\ \A k \in Batches : \A i \in Positions(k) : \A r \in 1..rbs[k].num_rows :
                    result.df.columns[i + 1].values[RowsBefore(k) + r] = Value(k, i, r - 1)

\* A successful conversion of two batches of two columns and two rows each,
\* in which a later batch and a later column finished first.
C2_Witness ==
    /\ Success
    /\ Len(rbs) = 2
    /\ \A k \in Batches : Len(rbs[k].columns) = 2 /\ rbs[k].num_rows = 2
    /\ overtaken = {"batches", "columns"}

\* ---- C3 -----------------------------------------------------------------
\* C3 (as claimed): in every successful conversion the table has as many
\* rows as all batches together.
C3_RowCountIsSum == Success => Height(result.df) = TotalRows

\* C3 (amended): in every successful conversion of batches that each have
\* at least one column, the table has as many rows as all batches together;
\* when all batches are as wide as the first, every column has that length.
C3_RowCountIsSumWithColumns ==
    (Success /\ \A k \in Batches : Len(rbs[k].columns) >= 1) =>
        /\ Height(result.df) = TotalRows
        /\ UniformWidth =>
              \A j \in 1..Len(result.df.columns) :
                  Len(result.df.columns[j].values) = TotalRows

\* A successful conversion of three batches with rows in each.
C3_Witness ==
    /\ Success
    /\ Len(rbs) = 3
    /\ \A k \in Batches : Len(rbs[k].columns) >= 1 /\ rbs[k].num_rows >= 1
    /\ Height(result.df) >= 4

\* ---- C4 -----------------------------------------------------------------
\* C4: the series built for position i of any batch carries the name at
\* position i of the first batch's schema, not the batch's own name there.
C4_NamesOfFirstBatch ==
    \A k \in Batches : \A i \in Positions(k) :
        slots[k][i + 1].st = "done" =>
            /\ i + 1 <= Len(rbs[1].schema)
            /\ slots[k][i + 1].val.name = rbs[1].schema[i + 1].name

\* A later batch whose own schema calls a converted column otherwise.
C4_Witness ==
    \E k \in Batches : \E i \in Positions(k) :
        /\ k >= 2
        /\ slots[k][i + 1].st = "done"
        /\ rbs[k].schema[i + 1].name # rbs[1].schema[i + 1].name
        /\ Success

\* ---- C5 -----------------------------------------------------------------
\* C5 (as claimed): no call ends in a panic; every failure is returned as
\* an Internal, Polars or DuckDB error.
C5_NeverPanics ==
    Finished =>
        /\ result.kind # "Panic"
        /\ result.kind = "Err" => result.err.tag \in {"Internal", "Polars", "DuckDB"}

\* ---- C6 -----------------------------------------------------------------
\* C6: if a column of the input fails to convert, or a column task has
\* failed, the call returns an error; and a table is returned only when
\* every column of every batch has been converted.
C6_NoPartialTable ==
    Finished =>
        /\ (Converting /\ FailingColumns # {}) => result.kind = "Err"
        /\ (\E k \in Batches : \E i \in Positions(k) : slots[k][i + 1].st = "failed")
              => result.kind = "Err"
        /\ result.kind = "Ok" =>
              \A k \in Batches :
                  /\ frames[k].st = "done"
                  /\ \A i \in Positions(k) : slots[k][i + 1].st = "done"

\* One batch was converted whole before a column of another batch failed.
C6_Witness ==
    /\ Finished
    /\ result.kind = "Err"
    /\ \E k \in Batches : frames[k].st = "done" /\ Len(rbs[k].columns) >= 1
    /\ \E k \in Batches : \E i \in Positions(k) :
          slots[k][i + 1].st = "failed" /\ \E j \in Positions(k) : slots[k][j + 1].st = "done"

\* ---- C7 -----------------------------------------------------------------
\* C7 (as claimed): if a batch has a column beyond the first batch's
\* schema, the call returns an Internal error that names the position of
\* such a column.
C7_InternalForOutOfRange ==
    (Finished /\ Converting /\ SomeOutOfRange) =>
        /\ result.kind = "Err"
        /\ result.err.tag = "Internal"
        /\ \E k \in Batches : \E i \in Positions(k) :
              OutOfRange(k, i) /\ result.err.msg[2] = i

\* C7 (amended): if a batch has a column beyond the first batch's schema,
\* the call returns an error and no table.  The error is the one the
\* collects recorded first: an Internal error that names the position of
\* such a column, or the Polars error of a column within the schema whose
\* type Series::try_from rejects.  Without such a rejected column it is the
\* Internal error, and it names i when column i is the only one beyond the
\* schema.
C7_ErrorForOutOfRange ==
    (Finished /\ Converting /\ SomeOutOfRange) =>
        /\ result.kind = "Err"
        /\ result.err.tag \in {"Internal", "Polars"}
        /\ result.err.tag = "Internal" =>
              \E k \in Batches : \E i \in Positions(k) :
                  OutOfRange(k, i) /\ result.err.msg[2] = i
        /\ result.err.tag = "Polars" => SomeRejected
        /\ ~SomeRejected => result.err.tag = "Internal"
        /\ \A k \in Batches : \A i \in Positions(k) :
              (OutOfRange(k, i) /\ ~SomeRejected
                 /\ \A l \in Batches : \A j \in Positions(l) : OutOfRange(l, j) => j = i)
                  => result.err.msg[2] = i

\* A second batch one column wider than the first; the first was converted
\* and the call returned the Internal error for position 1.
C7_Witness ==
    /\ Finished
    /\ Len(rbs) = 2
    /\ Len(rbs[1].columns) = 1
    /\ Len(rbs[2].columns) = 2
    /\ frames[1].st = "done"
    /\ result.kind = "Err"
    /\ result.err.tag = "Internal"
    /\ result.err.msg[2] = 1

\* ---- C8 -----------------------------------------------------------------
\* C8: a failed prepare or query is returned as a DuckDB error carrying the
\* engine's error; a column whose Series construction fails makes the call
\* return a Polars error carrying the cause unless a column beyond the
\* schema is recorded first; an Internal error is returned only for a
\* column beyond the schema.
C8_ErrorsByOrigin ==
    Finished =>
        /\ engine = "prepare_err" =>
              /\ result.kind = "Err" /\ result.err.tag = "DuckDB"
              /\ result.err.source = "prepare failed"
        /\ engine = "query_err" =>
              /\ result.kind = "Err" /\ result.err.tag = "DuckDB"
              /\ result.err.source = "query failed"
        /\ (result.kind = "Err" /\ result.err.tag = "DuckDB") => engine # "ok"
        /\ (result.kind = "Err" /\ result.err.tag = "Internal") =>
              (Converting /\ SomeOutOfRange)
        /\ (result.kind = "Err" /\ result.err.tag = "Polars") =>
              /\ Converting
              /\ \E k \in Batches : \E i \in Positions(k) :
                    /\ Rejected(k, i)
                    /\ result.err.source.data_type = rbs[k].columns[i + 1].data_type
        /\ (Converting /\ SomeRejected /\ ~SomeOutOfRange) =>
              result.kind = "Err" /\ result.err.tag = "Polars"

\* Two batches, a rejected column in the second, the Polars error returned.
C8_Witness ==
    /\ Finished
    /\ Len(rbs) = 2
    /\ \E i \in Positions(2) : Rejected(2, i)
    /\ ~SomeOutOfRange
    /\ result.kind = "Err"
    /\ result.err.tag = "Polars"
    /\ result.err.source.data_type \in RejectedTypes

\* ---- C9 -----------------------------------------------------------------
\* C9: a converted batch's frame has the batch's columns in the batch's
\* order, whatever the order in which its column tasks finished; a returned
\* table has the columns of the first batch's schema: as many, in that
\* order, with those names.
C9_ColumnOrder ==
    /\ \A k \in Batches :
          frames[k].st = "done" =>
              /\ Len(frames[k].val.columns) = Len(rbs[k].columns)
              /\ \A j \in 1..Len(rbs[k].columns) :
                    /\ frames[k].val.columns[j].values = rbs[k].columns[j].values
                    /\ frames[k].val.columns[j].dtype = rbs[k].columns[j].data_type
    /\ Success =>
          /\ Len(result.df.columns) = Len(rbs[1].schema)
          /\ \A j \in 1..Len(rbs[1].schema) :
                /\ result.df.columns[j].name = rbs[1].schema[j].name
                /\ result.df.columns[j].dtype = rbs[1].schema[j].data_type

\* A table of two columns of different types was returned after a later
\* column had finished before an earlier one.
C9_Witness ==
    /\ Success
    /\ "columns" \in overtaken
    /\ Len(rbs) >= 2
    /\ Len(result.df.columns) = 2
    /\ result.df.columns[1].dtype # result.df.columns[2].dtype

\* ---- C10 ----------------------------------------------------------------
\* C10 (as claimed): when every column of every batch has a name and an
\* accepted type, every batch is converted and a table is returned, no
\* error of any kind being raised, however the batches' widths and types
\* compare with the first batch's.
C10_NoErrorWhateverTheSchema ==
    (Finished /\ Converting /\ FailingColumns = {}) =>
        /\ \A k \in Batches : frames[k].st = "done"
        /\ result.kind = "Ok"

\* C10 (amended): when every column of every batch has a name and an
\* accepted type, every batch is converted to a frame and no error value is
\* returned, however the batches compare with the first.  If the types at
\* the positions shared with the first batch agree, a table with the first
\* batch's columns is returned even when a batch is narrower than the first
\* (the column count is not enforced).  If a type differs at a shared
\* position, stacking compares the two and the call aborts.
C10_NoSchemaCheck ==
    (Finished /\ Converting /\ FailingColumns = {}) =>
        /\ \A k \in Batches : frames[k].st = "done"
        /\ result.kind # "Err"
        /\ SameTypes =>
              /\ result.kind = "Ok"
              /\ Len(result.df.columns) = Len(rbs[1].columns)
        /\ ~SameTypes =>
              /\ result.kind = "Panic"
              /\ result.why = "should not fail"

\* A table was returned for a second batch narrower than the first: its
\* second column is shorter than its first.
C10_Witness ==
    /\ Success
    /\ Len(rbs) = 2
    /\ Len(rbs[1].columns) = 2
    /\ Len(rbs[2].columns) = 1
    /\ Len(result.df.columns[2].values) < Len(result.df.columns[1].values)

====
